---- MODULE Spec2Model ----
(***************************************************************************)
(* The property rewriter of src/rewriter/Prop.cc: Prop::run walks the      *)
(* statements of one class body, classifies each call with parseProp,      *)
(* synthesizes its replacement with processProp, and rebuilds the body     *)
(* (with mkTStructInitialize's constructor first for T::Struct classes).   *)
(* AST nodes are records tagged by kind; a null unique_ptr is Null.        *)
(***************************************************************************)
EXTENDS Integers, Sequences, FiniteSets, TLC

VARIABLES
    runningUnderAutogen,  \* ctx.state.runningUnderAutogen
    klass,                \* the ast::ClassDef handed to Prop::run
    errors,               \* the diagnostics ctx.beginError has opened so far
    oldRHS,               \* Prop::run's local: the statement list it was given
    replaceNodes,         \* Prop::run's local: statement position -> replacement
    props,                \* Prop::run's local: the records of the recognized calls
    runs                  \* how many times Prop::run was called on klass

vars == <<runningUnderAutogen, klass, errors, oldRHS, replaceNodes, props, runs>>

----------------------------------------------------------------------------
\* Bounds of the model.

\* longest class body of Spec
MaxStats == 3
\* most entries of an options map of SpecProp
MaxOpts == 2
\* how often the driver hands the same class to Prop::run
MaxRuns == 2

\* Prop.cc:99: a call with this many arguments is no prop
TooManyArgs == 4

----------------------------------------------------------------------------
\* AST nodes (ast/ast.h) and locations.

Null == [kind |-> "Null"]

Loc(b, e) == [beginPos |-> b, endPos |-> e]

NoLoc == Loc(0, 0)

noName == "<noName>"

EmptyTree == [kind |-> "EmptyTree"]

Send(loc, recv, fun, args, block) ==
    [kind |-> "Send", loc |-> loc, recv |-> recv, fun |-> fun, args |-> args, block |-> block]

UnresolvedConstantLit(loc, scope, cnst) ==
    [kind |-> "UnresolvedConstantLit", loc |-> loc, scope |-> scope, cnst |-> cnst]

ConstantLit(loc, symbol) == [kind |-> "ConstantLit", loc |-> loc, symbol |-> symbol]

\* lit is the literal's class: Symbol, Nil, True, False, Integer or String
Literal(loc, lit, value) == [kind |-> "Literal", loc |-> loc, lit |-> lit, value |-> value]

Hash(loc, keys, values) == [kind |-> "Hash", loc |-> loc, keys |-> keys, values |-> values]

Block(loc, args, body) == [kind |-> "Block", loc |-> loc, args |-> args, body |-> body]

MethodDef(loc, name, args, rhs) ==
    [kind |-> "MethodDef", loc |-> loc, name |-> name, args |-> args, rhs |-> rhs]

ClassDef(loc, name, ancestors, rhs) ==
    [kind |-> "ClassDef", loc |-> loc, name |-> name, ancestors |-> ancestors, rhs |-> rhs]

InsSeq(loc, stats, expr) == [kind |-> "InsSeq", loc |-> loc, stats |-> stats, expr |-> expr]

Assign(loc, lhs, rhs) == [kind |-> "Assign", loc |-> loc, lhs |-> lhs, rhs |-> rhs]

UnresolvedIdent(loc, vkind, name) ==
    [kind |-> "UnresolvedIdent", loc |-> loc, vkind |-> vkind, name |-> name]

Local(loc, name) == [kind |-> "Local", loc |-> loc, name |-> name]

Self(loc) == [kind |-> "Self", loc |-> loc]

ZSuperArgs(loc) == [kind |-> "ZSuperArgs", loc |-> loc]

KeywordArg(loc, expr) == [kind |-> "KeywordArg", loc |-> loc, expr |-> expr]

OptionalArg(loc, expr, default_) ==
    [kind |-> "OptionalArg", loc |-> loc, expr |-> expr, default_ |-> default_]

RestArg(loc, expr) == [kind |-> "RestArg", loc |-> loc, expr |-> expr]

isSymbol(e) == e.kind = "Literal" /\ e.lit = "Symbol"

\* Expression::deepCopy: a fresh tree equal to the original, node by node.
deepCopy(e) == e

\* NameRef::addAt and NameRef::addEq
addAt(name) == "@" \o name

addEq(name) == name \o "="

----------------------------------------------------------------------------
\* ast::MK, the node factory (ast/Helpers.h).

MK_EmptyTree == EmptyTree

MK_Send0(loc, recv, fun) == Send(loc, recv, fun, <<>>, Null)

MK_Send1(loc, recv, fun, arg1) == Send(loc, recv, fun, <<arg1>>, Null)

MK_Send2(loc, recv, fun, arg1, arg2) == Send(loc, recv, fun, <<arg1, arg2>>, Null)

MK_Constant(loc, symbol) == ConstantLit(loc, symbol)

MK_UnresolvedConstant(loc, scope, name) == UnresolvedConstantLit(loc, scope, name)

MK_Symbol(loc, name) == Literal(loc, "Symbol", name)

MK_Nil(loc) == Literal(loc, "Nil", "nil")

MK_Self(loc) == Self(loc)

MK_Local(loc, name) == Local(loc, name)

MK_Instance(loc, name) == UnresolvedIdent(loc, "Instance", name)

MK_KeywordArg(loc, inner) == KeywordArg(loc, inner)

MK_OptionalArg(loc, inner, default_) == OptionalArg(loc, inner, default_)

MK_RestArg(loc, inner) == RestArg(loc, inner)

MK_Assign(loc, lhs, rhs) == Assign(loc, lhs, rhs)

MK_Hash(loc, keys, values) == Hash(loc, keys, values)

MK_Hash0(loc) == Hash(loc, <<>>, <<>>)

MK_Hash1(loc, key, value) == Hash(loc, <<key>>, <<value>>)

MK_InsSeq(loc, stats, expr) == InsSeq(loc, stats, expr)

MK_InsSeq1(loc, stat, expr) == InsSeq(loc, <<stat>>, expr)

MK_T(loc) == MK_Constant(loc, "T")

MK_Untyped(loc) == MK_Send0(loc, MK_T(loc), "untyped")

MK_Nilable(loc, arg) == MK_Send1(loc, MK_T(loc), "nilable", arg)

MK_Unsafe(loc, inner) == MK_Send1(loc, MK_T(loc), "unsafe", inner)

MK_AssertType(loc, value, type) == MK_Send2(loc, MK_T(loc), "assert_type!", value, type)

\* Kernel.raise("Sorbet rewriter pass partially unimplemented")
MK_RaiseUnimplemented(loc) ==
    MK_Send1(loc, MK_Constant(loc, "Kernel"), "raise",
             Literal(loc, "String", "Sorbet rewriter pass partially unimplemented"))

MK_ZSuper(loc) == MK_Send1(loc, MK_Self(loc), "super", ZSuperArgs(loc))

\* the sig call, its type in the block: Sorbet::Private::Static.sig(WithoutRuntime) {body}
MK_SigSend(loc, body) ==
    Send(loc, MK_Constant(loc, "Sorbet_Private_Static"), "sig",
         <<MK_Constant(loc, "T_Sig_WithoutRuntime")>>, Block(loc, <<>>, body))

\* sig {params(sigArgs).returns(ret)}
MK_Sig(loc, sigArgs, ret) ==
    MK_SigSend(loc, MK_Send1(loc, MK_Send1(loc, MK_Self(loc), "params", sigArgs), "returns", ret))

\* sig {params(sigArgs).void}
MK_SigVoid(loc, sigArgs) ==
    MK_SigSend(loc, MK_Send0(loc, MK_Send1(loc, MK_Self(loc), "params", sigArgs), "void"))

\* sig {returns(ret)}
MK_Sig0(loc, ret) == MK_SigSend(loc, MK_Send1(loc, MK_Self(loc), "returns", ret))

\* sig {params(key: value).returns(ret)}
MK_Sig1(loc, key, value, ret) == MK_Sig(loc, MK_Hash1(loc, key, value), ret)

MK_SyntheticMethod(loc, declLoc, name, args, rhs) == MethodDef(loc, name, args, rhs)

MK_SyntheticMethod0(loc, declLoc, name, rhs) == MK_SyntheticMethod(loc, declLoc, name, <<>>, rhs)

MK_SyntheticMethod1(loc, declLoc, name, arg0, rhs) ==
    MK_SyntheticMethod(loc, declLoc, name, <<arg0>>, rhs)

MK_Class(loc, declLoc, name, ancestors, rhs) == ClassDef(loc, name, ancestors, rhs)

----------------------------------------------------------------------------
\* ASTUtil (rewriter/Util.h), the helpers shared by the rewriter passes.

\* A copy of a tree that reads as a type (sends on constants, constants), else Null.
RECURSIVE dupType(_)
dupType(orig) ==
    CASE orig.kind = "Send" ->
            LET dupRecv == dupType(orig.recv)
                dupArgs == [i \in 1..Len(orig.args) |-> dupType(orig.args[i])]
            IN  IF dupRecv = Null \/ \E i \in 1..Len(orig.args) : dupArgs[i] = Null
                THEN Null
                ELSE Send(orig.loc, dupRecv, orig.fun, dupArgs, Null)
      [] orig.kind = "ConstantLit" -> ConstantLit(orig.loc, orig.symbol)
      [] orig.kind = "UnresolvedConstantLit" ->
            IF orig.scope.kind = "EmptyTree"
            THEN MK_UnresolvedConstant(orig.loc, MK_EmptyTree, orig.cnst)
            ELSE IF orig.scope.kind = "ConstantLit"
            THEN MK_UnresolvedConstant(orig.loc, dupType(orig.scope), orig.cnst)
            ELSE IF orig.scope.kind = "UnresolvedConstantLit"
            THEN LET scope == dupType(orig.scope)
                 IN  IF scope = Null THEN Null
                     ELSE MK_UnresolvedConstant(orig.loc, scope, orig.cnst)
            ELSE Null
      [] OTHER -> Null

\* position of the first entry of hash whose key is the symbol name, 0 if none
findKey(hash, name) ==
    LET hits == {i \in 1..Len(hash.keys) : isSymbol(hash.keys[i]) /\ hash.keys[i].value = name}
    IN  IF hits = {} THEN 0 ELSE CHOOSE i \in hits : \A j \in hits : i <= j

hasHashValue(hash, name) == findKey(hash, name) # 0

\* the key is there and its value is neither the nil nor the false literal
hasTruthyHashValue(hash, name) ==
    LET i == findKey(hash, name)
    IN  /\ i # 0
        /\ LET val == hash.values[i]
           IN  ~(val.kind = "Literal" /\ val.lit \in {"Nil", "False"})

removeAt(seq, i) == [j \in 1..(Len(seq) - 1) |-> IF j < i THEN seq[j] ELSE seq[j + 1]]

\* takes the first entry keyed by name out of hash: the pair, and the hash left
extractHashValue(hash, name) ==
    LET i == findKey(hash, name)
    IN  IF i = 0
        THEN [key |-> Null, value |-> Null, hash |-> hash]
        ELSE [key |-> hash.keys[i], value |-> hash.values[i],
              hash |-> Hash(hash.loc, removeAt(hash.keys, i), removeAt(hash.values, i))]

isKernel(expr) ==
    \/ expr.kind = "ConstantLit" /\ expr.symbol = "Kernel"
    \/ /\ expr.kind = "UnresolvedConstantLit"
       /\ expr.cnst = "Kernel"
       /\ expr.scope.kind = "EmptyTree"

\* the body of `-> { body }`, `lambda { body }` or `proc { body }`, else Null
thunkBody(node) ==
    IF node.kind # "Send" THEN Null
    ELSE IF node.fun \notin {"lambda", "proc"} THEN Null
    ELSE IF ~(node.recv.kind = "Self" \/ isKernel(node.recv)) THEN Null
    ELSE IF node.block = Null THEN Null
    ELSE IF node.block.args # <<>> THEN Null
    ELSE node.block.body

\* type names the class sym: sym, T::sym or ::sym, or an instantiation sym[...] of it
RECURSIVE isProbablySymbol(_, _)
isProbablySymbol(type, sym) ==
    CASE type.kind = "UnresolvedConstantLit" ->
            /\ type.cnst = sym
            /\ \/ type.scope.kind = "EmptyTree"
               \/ /\ type.scope.kind = "UnresolvedConstantLit"
                  /\ type.scope.scope.kind = "EmptyTree"
                  /\ type.scope.cnst = "T"
               \/ type.scope.kind = "ConstantLit" /\ type.scope.symbol = "root"
      [] type.kind = "Send" -> type.fun = "[]" /\ isProbablySymbol(type.recv, sym)
      [] OTHER -> FALSE

mkGet(loc, name, rhs) == MK_SyntheticMethod0(loc, loc, name, rhs)

mkSet(loc, name, argLoc, rhs) ==
    MK_SyntheticMethod1(loc, loc, name, MK_Local(argLoc, "arg0"), rhs)

\* Chalk::ODM::Mutator::Private::className
mkMutator(loc, className) ==
    LET chalk == MK_UnresolvedConstant(loc, MK_EmptyTree, "Chalk")
        odm == MK_UnresolvedConstant(loc, chalk, "ODM")
        mutator == MK_UnresolvedConstant(loc, odm, "Mutator")
        private == MK_UnresolvedConstant(loc, mutator, "Private")
    IN  MK_UnresolvedConstant(loc, private, className)

\* ctx.beginError(loc, what) with its header and, for a fix, its replacement
Diagnostic(loc, what, header, autocorrect) ==
    [loc |-> loc, what |-> what, header |-> header, autocorrect |-> autocorrect]

----------------------------------------------------------------------------
\* src/rewriter/Prop.cc: the syntactic helpers.

isT(expr) ==
    /\ expr.kind = "UnresolvedConstantLit"
    /\ expr.cnst = "T"
    /\ \/ expr.scope.kind = "EmptyTree"
       \/ expr.scope.kind = "ConstantLit" /\ expr.scope.symbol = "root"

isTNilable(expr) == expr.kind = "Send" /\ expr.fun = "nilable" /\ isT(expr.recv)

isTStruct(expr) ==
    expr.kind = "UnresolvedConstantLit" /\ expr.cnst = "Struct" /\ isT(expr.scope)

\* struct PropInfo, default-constructed
PropInfo ==
    [loc |-> NoLoc, isImmutable |-> FALSE, name |-> noName, nameLoc |-> NoLoc,
     type |-> Null, default_ |-> Null, computedByMethodName |-> noName,
     computedByMethodNameLoc |-> NoLoc, foreign |-> Null, ifunset |-> Null]

\* what a call of parseProp leaves: the optional it returns, and the diagnostics
\* it opened on the way
nullopt(errs) == [has_value |-> FALSE, value |-> PropInfo, errors |-> errs]

some(ret, errs) == [has_value |-> TRUE, value |-> ret, errors |-> errs]

----------------------------------------------------------------------------
\* parseProp: is this call a property declaration, and what does it declare?

\* "Is this a send we care about?": the record with what the macro's name implies
parsePropFun(send) ==
    LET ret == [PropInfo EXCEPT !.loc = send.loc]
    IN  CASE send.fun = "prop" -> some(ret, <<>>)
          [] send.fun = "const" -> some([ret EXCEPT !.isImmutable = TRUE], <<>>)
          [] send.fun \in {"token_prop", "timestamped_token_prop"} ->
                some([ret EXCEPT
                        !.name = "token",
                        !.nameLoc = Loc(send.loc.beginPos +
                                          (IF send.fun = "timestamped_token_prop" THEN 12 ELSE 0),
                                        send.loc.endPos - 5),
                        !.type = MK_Constant(send.loc, "String")], <<>>)
          [] send.fun = "created_prop" ->
                some([ret EXCEPT
                        !.name = "created",
                        !.nameLoc = Loc(send.loc.beginPos, send.loc.endPos - 5),
                        !.type = MK_Constant(send.loc, "Float")], <<>>)
          [] send.fun = "merchant_prop" ->
                some([ret EXCEPT
                        !.isImmutable = TRUE,
                        !.name = "merchant",
                        !.nameLoc = Loc(send.loc.beginPos, send.loc.endPos - 5),
                        !.type = MK_Constant(send.loc, "String")], <<>>)
          [] OTHER -> nullopt(<<>>)

\* "Too many args, even if all optional args were provided."
parsePropArity(send, r) ==
    IF ~r.has_value THEN r
    ELSE IF Len(send.args) >= TooManyArgs THEN nullopt(r.errors)
    ELSE r

\* "What's the prop's name?"
parsePropName(send, r) ==
    IF ~r.has_value THEN r
    ELSE IF r.value.name # noName THEN r
    ELSE IF send.args = <<>> THEN nullopt(r.errors)
    ELSE IF ~isSymbol(send.args[1]) THEN nullopt(r.errors)
    ELSE some([r.value EXCEPT
                 !.name = send.args[1].value,
                 !.nameLoc = Loc(send.args[1].loc.beginPos + 1, send.args[1].loc.endPos)],
              r.errors)

\* "What's the prop's type?"
parsePropType(send, r) ==
    IF ~r.has_value THEN r
    ELSE IF r.value.type # Null THEN r
    ELSE IF Len(send.args) = 1 THEN nullopt(r.errors)
    ELSE IF dupType(send.args[2]) = Null THEN nullopt(r.errors)
    ELSE some([r.value EXCEPT !.type = dupType(send.args[2])], r.errors)

\* "Does the prop have any extra options?": a deep copy of the trailing hash, or Null
parsePropRules(send) ==
    IF send.args # <<>> /\ send.args[Len(send.args)].kind = "Hash"
    THEN deepCopy(send.args[Len(send.args)])
    ELSE Null

\* The option rules work on st: the record (value), the rules not yet extracted, and
\* the diagnostics opened so far.
ruleImmutable(st) ==
    IF hasTruthyHashValue(st.rules, "immutable")
    THEN [st EXCEPT !.value.isImmutable = TRUE]
    ELSE st

takeDefault(st, kv) == [st EXCEPT !.value.default_ = kv.value, !.rules = kv.hash]

ruleDefault(st) ==
    IF hasTruthyHashValue(st.rules, "factory")
    THEN [st EXCEPT !.value.default_ = MK_RaiseUnimplemented(st.value.loc)]
    ELSE IF hasHashValue(st.rules, "default")
    THEN takeDefault(st, extractHashValue(st.rules, "default"))
    ELSE st

takeComputedBy(st, kv) ==
    IF isSymbol(kv.value)
    THEN [st EXCEPT !.value.computedByMethodNameLoc = kv.value.loc,
                    !.value.computedByMethodName = kv.value.value,
                    !.rules = kv.hash]
    ELSE [st EXCEPT !.errors = Append(@, Diagnostic(kv.value.loc, "ComputedBySymbol",
                                                    "Value for {} must be a symbol literal",
                                                    Null)),
                    !.rules = kv.hash]

\* ruleComputedBy that takes any value the key has, nil and false too
ruleComputedByAnyValue(st) ==
    IF hasHashValue(st.rules, "computed_by")
    THEN takeComputedBy(st, extractHashValue(st.rules, "computed_by"))
    ELSE st

\* e.g. `const :foo, type, computed_by: :method_name`
ruleComputedBy(st) ==
    IF hasTruthyHashValue(st.rules, "computed_by")
    THEN takeComputedBy(st, extractHashValue(st.rules, "computed_by"))
    ELSE st

\* takeForeign that records the thunk itself, not its body
takeForeignKeepsThunk(st, kv, body) ==
    IF kv.value = Null THEN [st EXCEPT !.rules = kv.hash]
    ELSE IF body # Null THEN [st EXCEPT !.value.foreign = kv.value, !.rules = kv.hash]
    ELSE [st EXCEPT !.value.foreign = kv.value,
                    !.rules = kv.hash,
                    !.errors = Append(@, Diagnostic(kv.value.loc, "PropForeignStrict",
                                                    "The argument to {} must be a lambda",
                                                    [title |-> "Convert to lambda",
                                                     loc |-> kv.value.loc,
                                                     format |-> "-> {{{}}}",
                                                     source |-> kv.value.loc]))]

takeForeign(st, kv, body) ==
    IF kv.value = Null THEN [st EXCEPT !.rules = kv.hash]
    ELSE IF body # Null THEN [st EXCEPT !.value.foreign = body, !.rules = kv.hash]
    ELSE [st EXCEPT !.value.foreign = kv.value,
                    !.rules = kv.hash,
                    !.errors = Append(@, Diagnostic(kv.value.loc, "PropForeignStrict",
                                                    "The argument to {} must be a lambda",
                                                    [title |-> "Convert to lambda",
                                                     loc |-> kv.value.loc,
                                                     format |-> "-> {{{}}}",
                                                     source |-> kv.value.loc]))]

foreignBody(kv) == IF kv.value = Null THEN Null ELSE thunkBody(kv.value)

ruleForeign(st) ==
    takeForeign(st, extractHashValue(st.rules, "foreign"),
                foreignBody(extractHashValue(st.rules, "foreign")))

takeIfunset(st, kv) ==
    IF kv.value # Null
    THEN [st EXCEPT !.value.ifunset = kv.value, !.rules = kv.hash]
    ELSE st

ruleIfunset(st) == takeIfunset(st, extractHashValue(st.rules, "ifunset"))

\* the rules hash dies with parseProp
withoutRules(st) == some(st.value, st.errors)

\* "Parse any extra options", when there are rules; three arguments of which the
\* last is no hash are no prop
parsePropOptions(send, r, rules) ==
    IF ~r.has_value THEN r
    ELSE IF rules = Null /\ Len(send.args) >= 3 THEN nullopt(r.errors)
    ELSE IF rules = Null THEN r
    ELSE withoutRules(ruleIfunset(ruleForeign(ruleComputedBy(ruleDefault(ruleImmutable(
            [value |-> r.value, rules |-> rules, errors |-> r.errors]))))))

\* parsePropNilDefault that leaves the default unset
parsePropNoNilDefault(r) == r

\* a nilable prop with no default gets nil
parsePropNilDefault(r) ==
    IF ~r.has_value THEN r
    ELSE IF r.value.default_ = Null /\ isTNilable(r.value.type)
    THEN some([r.value EXCEPT !.default_ = MK_Nil(r.value.loc)], r.errors)
    ELSE r

\* parseProp with the argument count checked last, after the options were parsed
parsePropLateArity(send) ==
    parsePropArity(send,
        parsePropNilDefault(
            parsePropOptions(send,
                             parsePropType(send, parsePropName(send, parsePropFun(send))),
                             parsePropRules(send))))

parseProp(send) ==
    parsePropNilDefault(
        parsePropOptions(send,
                         parsePropType(send, parsePropName(send,
                                                           parsePropArity(send, parsePropFun(send)))),
                         parsePropRules(send)))

----------------------------------------------------------------------------
\* processProp: the statements that replace one recognized declaration.

\* sig {returns(type)} and the getter
\* processPropGetter that tries the field read of a struct before computed_by
processPropGetterFieldFirst(ret, forTStruct) ==
    LET loc == ret.loc
        name == ret.name
        getType == dupType(ret.type)
        computedByMethodNameLoc == ret.computedByMethodNameLoc
        varName == addAt(name)
        sig == MK_Sig(loc, MK_Hash0(loc), dupType(getType))
    IN  IF ret.ifunset = Null /\ forTStruct
        THEN <<sig, mkGet(loc, name, MK_Instance(ret.nameLoc, varName))>>
        ELSE IF ret.computedByMethodName # noName
        THEN LET selfSendClass == MK_Send0(computedByMethodNameLoc, MK_Self(loc), "class")
                 unsafeNil == MK_Unsafe(computedByMethodNameLoc, MK_Nil(computedByMethodNameLoc))
                 sendComputedMethod == MK_Send1(computedByMethodNameLoc, selfSendClass,
                                                ret.computedByMethodName, unsafeNil)
                 assertTypeMatches == MK_AssertType(computedByMethodNameLoc, sendComputedMethod,
                                                    dupType(getType))
                 insSeq == MK_InsSeq1(loc, assertTypeMatches, MK_RaiseUnimplemented(loc))
             IN  <<sig, mkGet(loc, name, insSeq)>>
        ELSE <<sig, mkGet(loc, name, MK_RaiseUnimplemented(loc))>>

processPropGetter(ret, forTStruct) ==
    LET loc == ret.loc
        name == ret.name
        getType == dupType(ret.type)
        computedByMethodNameLoc == ret.computedByMethodNameLoc
        varName == addAt(name)
        sig == MK_Sig(loc, MK_Hash0(loc), dupType(getType))
    IN  IF ret.computedByMethodName # noName
        THEN LET selfSendClass == MK_Send0(computedByMethodNameLoc, MK_Self(loc), "class")
                 unsafeNil == MK_Unsafe(computedByMethodNameLoc, MK_Nil(computedByMethodNameLoc))
                 sendComputedMethod == MK_Send1(computedByMethodNameLoc, selfSendClass,
                                                ret.computedByMethodName, unsafeNil)
                 assertTypeMatches == MK_AssertType(computedByMethodNameLoc, sendComputedMethod,
                                                    dupType(getType))
                 insSeq == MK_InsSeq1(loc, assertTypeMatches, MK_RaiseUnimplemented(loc))
             IN  <<sig, mkGet(loc, name, insSeq)>>
        ELSE IF ret.ifunset = Null /\ forTStruct
        THEN <<sig, mkGet(loc, name, MK_Instance(ret.nameLoc, varName))>>
        ELSE <<sig, mkGet(loc, name, MK_RaiseUnimplemented(loc))>>

\* sig {params(arg0: type).returns(type)} and the setter name=
mkSetterPair(ret) ==
    LET loc == ret.loc
        setType == dupType(ret.type)
    IN  <<MK_Sig(loc, MK_Hash1(loc, MK_Symbol(ret.nameLoc, "arg0"), dupType(setType)),
                 dupType(setType)),
          mkSet(loc, addEq(ret.name), ret.nameLoc, MK_RaiseUnimplemented(loc))>>

\* "Compute the setter": none for an immutable prop
processPropSetter(ret) == IF ~ret.isImmutable THEN mkSetterPair(ret) ELSE <<>>

\* "Compute the `_` foreign accessor": name_ and name_!, each under its sig
processPropForeign(ret) ==
    IF ret.foreign = Null THEN <<>>
    ELSE
    LET loc == ret.loc
        nameLoc == ret.nameLoc
        valid == dupType(ret.foreign) # Null
        type == IF valid THEN MK_Nilable(loc, dupType(ret.foreign)) ELSE MK_Untyped(loc)
        nonNilType == IF valid THEN dupType(ret.foreign) ELSE MK_Untyped(loc)
        arg == MK_RestArg(nameLoc, MK_KeywordArg(nameLoc, MK_Local(nameLoc, "opts")))
    IN  <<MK_Sig1(loc, MK_Symbol(nameLoc, "opts"), MK_Untyped(loc), type),
          MK_SyntheticMethod1(loc, loc, ret.name \o "_", arg, MK_RaiseUnimplemented(loc)),
          MK_Sig1(loc, MK_Symbol(nameLoc, "opts"), MK_Untyped(loc), nonNilType),
          MK_SyntheticMethod1(loc, loc, ret.name \o "_!", arg, MK_RaiseUnimplemented(loc))>>

\* mutatorType with the two arguments of a Hash in the wrong order
mutatorTypeSwapped(ret) ==
    LET loc == ret.loc
        send == ret.type
    IN  IF isProbablySymbol(ret.type, "Hash")
        THEN IF send.kind = "Send" /\ send.fun = "[]" /\ Len(send.args) = 2
             THEN MK_Send2(loc, mkMutator(loc, "HashMutator"), "[]",
                           dupType(send.args[2]), dupType(send.args[1]))
             ELSE MK_Send2(loc, mkMutator(loc, "HashMutator"), "[]",
                           MK_Untyped(loc), MK_Untyped(loc))
        ELSE IF isProbablySymbol(ret.type, "Array")
        THEN IF send.kind = "Send" /\ send.fun = "[]" /\ Len(send.args) = 1
             THEN MK_Send1(loc, mkMutator(loc, "ArrayMutator"), "[]", dupType(send.args[1]))
             ELSE MK_Send1(loc, mkMutator(loc, "ArrayMutator"), "[]", MK_Untyped(loc))
        ELSE Null

\* "Maybe make a getter": the mutator proxy type of a Hash or Array prop, else Null
mutatorType(ret) ==
    LET loc == ret.loc
        send == ret.type
    IN  IF isProbablySymbol(ret.type, "Hash")
        THEN IF send.kind = "Send" /\ send.fun = "[]" /\ Len(send.args) = 2
             THEN MK_Send2(loc, mkMutator(loc, "HashMutator"), "[]",
                           dupType(send.args[1]), dupType(send.args[2]))
             ELSE MK_Send2(loc, mkMutator(loc, "HashMutator"), "[]",
                           MK_Untyped(loc), MK_Untyped(loc))
        ELSE IF isProbablySymbol(ret.type, "Array")
        THEN IF send.kind = "Send" /\ send.fun = "[]" /\ Len(send.args) = 1
             THEN MK_Send1(loc, mkMutator(loc, "ArrayMutator"), "[]", dupType(send.args[1]))
             ELSE MK_Send1(loc, mkMutator(loc, "ArrayMutator"), "[]", MK_Untyped(loc))
        ELSE Null

\* "Compute the Mutator": class Mutator with the setter and the proxy getter,
\* added to the nodes only when there is a proxy getter
processPropMutator(ret) ==
    LET loc == ret.loc
        mutator == mutatorType(ret)
        rhs == mkSetterPair(ret)
    IN  IF mutator # Null
        THEN <<MK_Class(loc, loc, MK_UnresolvedConstant(loc, MK_EmptyTree, "Mutator"), <<>>,
                        rhs \o <<MK_Sig0(loc, dupType(mutator)),
                                 mkGet(loc, ret.name, MK_RaiseUnimplemented(loc))>>)>>
        ELSE <<>>

processProp(ret, forTStruct) ==
    processPropGetter(ret, forTStruct) \o processPropSetter(ret)
        \o processPropForeign(ret) \o processPropMutator(ret)

----------------------------------------------------------------------------
\* mkTStructInitialize: the sig and the constructor of a T::Struct class.

\* the props that go first (no default), then the props with a default
requiredProps(props_) == SelectSeq(props_, LAMBDA prop : prop.default_ = Null)

\* optionalProps without the `continue` that skips the props with no default
optionalPropsNoSkip(props_) == props_

optionalProps(props_) == SelectSeq(props_, LAMBDA prop : prop.default_ # Null)

mkTStructInitialize(klassLoc, props_) ==
    LET required == requiredProps(props_)
        optional == optionalProps(props_)
        args == [i \in 1..Len(required) |->
                    MK_KeywordArg(required[i].loc, MK_Local(required[i].loc, required[i].name))]
                \o [i \in 1..Len(optional) |->
                    MK_OptionalArg(optional[i].loc,
                                   MK_KeywordArg(optional[i].loc,
                                                 MK_Local(optional[i].loc, optional[i].name)),
                                   deepCopy(optional[i].default_))]
        ordered == required \o optional
        sigKeys == [i \in 1..Len(ordered) |-> MK_Symbol(ordered[i].loc, ordered[i].name)]
        sigVals == [i \in 1..Len(ordered) |-> deepCopy(ordered[i].type)]
        stats == [i \in 1..Len(props_) |->
                    MK_Assign(props_[i].loc,
                              MK_Instance(props_[i].nameLoc, addAt(props_[i].name)),
                              MK_Local(props_[i].nameLoc, props_[i].name))]
        body == MK_InsSeq(klassLoc, stats, MK_ZSuper(klassLoc))
    IN  <<MK_SigVoid(klassLoc, MK_Hash(klassLoc, sigKeys, sigVals)),
          MK_SyntheticMethod(klassLoc, klassLoc, "initialize", args, body)>>

----------------------------------------------------------------------------
\* Prop::run

\* one turn of the first loop on a call: keep its replacement and its record
scanSend(i, propInfo, forTStruct, acc) ==
    IF ~propInfo.has_value
    THEN [acc EXCEPT !.errors = @ \o propInfo.errors]
    ELSE [replaceNodes |-> (i :> processProp(propInfo.value, forTStruct)) @@ acc.replaceNodes,
          props |-> Append(acc.props, propInfo.value),
          errors |-> acc.errors \o propInfo.errors]

\* the first loop: classify each statement
RECURSIVE scanRHS(_, _, _, _)
scanRHS(rhs, forTStruct, i, acc) ==
    IF i > Len(rhs) THEN acc
    ELSE IF rhs[i].kind # "Send" THEN scanRHS(rhs, forTStruct, i + 1, acc)
    ELSE scanRHS(rhs, forTStruct, i + 1, scanSend(i, parseProp(rhs[i]), forTStruct, acc))

\* rebuildRHS that keeps a replaced statement before its replacement
RECURSIVE rebuildRHSKeepsOld(_, _, _)
rebuildRHSKeepsOld(old, replace, i) ==
    IF i > Len(old) THEN <<>>
    ELSE <<old[i]>> \o (IF i \notin DOMAIN replace THEN <<>> ELSE replace[i])
            \o rebuildRHSKeepsOld(old, replace, i + 1)

\* the second loop: every old statement, or what replaces it, in the old order
RECURSIVE rebuildRHS(_, _, _)
rebuildRHS(old, replace, i) ==
    IF i > Len(old) THEN <<>>
    ELSE (IF i \notin DOMAIN replace THEN <<old[i]>> ELSE replace[i])
            \o rebuildRHS(old, replace, i + 1)

isForTStruct(ancestors) == \E i \in 1..Len(ancestors) : isTStruct(ancestors[i])

\* newRHS with the constructor put last instead of first
newRHSInitializeLast(old, klassLoc_, forTStruct, scanned) ==
    rebuildRHS(old, scanned.replaceNodes, 1)
        \o (IF forTStruct THEN mkTStructInitialize(klassLoc_, scanned.props) ELSE <<>>)

\* the body Prop::run leaves, given what the first loop found
newRHS(old, klassLoc_, forTStruct, scanned) ==
    (IF forTStruct THEN mkTStructInitialize(klassLoc_, scanned.props) ELSE <<>>)
        \o rebuildRHS(old, scanned.replaceNodes, 1)

rewrite(forTStruct, scanned) ==
    /\ oldRHS' = klass.rhs
    /\ replaceNodes' = scanned.replaceNodes
    /\ props' = scanned.props
    /\ errors' = errors \o scanned.errors
    /\ klass' = [klass EXCEPT !.rhs = newRHS(klass.rhs, klass.loc, forTStruct, scanned)]

\* Run without the early return of autogen mode
RunUnderAutogenToo ==
    /\ runs < MaxRuns
    /\ runs' = runs + 1
    /\ UNCHANGED runningUnderAutogen
    /\ rewrite(isForTStruct(klass.ancestors),
               scanRHS(klass.rhs, isForTStruct(klass.ancestors), 1,
                       [replaceNodes |-> <<>>, props |-> <<>>, errors |-> <<>>]))

Run ==
    /\ runs < MaxRuns
    /\ runs' = runs + 1
    /\ UNCHANGED runningUnderAutogen
    /\ IF runningUnderAutogen
       THEN UNCHANGED <<klass, errors, oldRHS, replaceNodes, props>>
       ELSE rewrite(isForTStruct(klass.ancestors),
                    scanRHS(klass.rhs, isForTStruct(klass.ancestors), 1,
                            [replaceNodes |-> <<>>, props |-> <<>>, errors |-> <<>>]))

Next == Run

----------------------------------------------------------------------------
\* The class bodies the driver may hand to Prop::run: parsed Ruby, as trees.

\* every sequence over S of length at most n
SeqUpTo(S, n) == UNION {[1..m -> S] : m \in 0..n}

callLoc == Loc(10, 60)

nameArgLoc == Loc(15, 19)

typeArgLoc == Loc(21, 30)

rulesLoc == Loc(32, 60)

\* :name
symbolLit(loc, name) == Literal(loc, "Symbol", name)

integerLit(loc) == Literal(loc, "Integer", "1")

\* Name, T, ::T, Foo::T, T::Name, Foo::Name
cnst(name) == UnresolvedConstantLit(typeArgLoc, EmptyTree, name)

rootT == UnresolvedConstantLit(typeArgLoc, ConstantLit(typeArgLoc, "root"), "T")

fooT == UnresolvedConstantLit(typeArgLoc, cnst("Foo"), "T")

scoped(scope, name) == UnresolvedConstantLit(typeArgLoc, scope, name)

\* recv[args] and recv.fun(args)
generic(recv, args) == Send(typeArgLoc, recv, "[]", args, Null)

call(recv, fun, args) == Send(typeArgLoc, recv, fun, args, Null)

HashTypes ==
    {generic(scoped(cnst("T"), "Hash"), <<cnst("Symbol"), cnst("String")>>),
     generic(cnst("Hash"), <<cnst("String"), cnst("Foo")>>),
     generic(scoped(cnst("T"), "Hash"), <<cnst("String")>>),
     scoped(cnst("T"), "Hash"),
     generic(generic(cnst("Hash"), <<cnst("Symbol"), cnst("String")>>), <<cnst("Foo")>>)}

ArrayTypes ==
    {generic(scoped(cnst("T"), "Array"), <<cnst("String")>>),
     generic(scoped(ConstantLit(typeArgLoc, "root"), "Array"), <<cnst("Foo")>>),
     generic(cnst("Array"), <<cnst("Symbol"), cnst("String")>>),
     cnst("Array")}

NilableTypes ==
    {call(cnst("T"), "nilable", <<cnst("String")>>),
     call(rootT, "nilable", <<cnst("Foo")>>)}

OtherTypes ==
    {cnst("String"), cnst("Foo"), ConstantLit(typeArgLoc, "Float"),
     call(fooT, "nilable", <<cnst("String")>>),
     call(cnst("T"), "any", <<cnst("String"), cnst("Foo")>>),
     generic(scoped(cnst("Foo"), "Hash"), <<cnst("Symbol"), cnst("String")>>),
     call(cnst("T"), "nilable",
          <<generic(scoped(cnst("T"), "Hash"), <<cnst("Symbol"), cnst("String")>>)>>)}

TypeExprs == HashTypes \cup ArrayTypes \cup NilableTypes \cup OtherTypes

\* second arguments that are no type: 1, "s", foo(String), T.nilable(1)
NonTypes ==
    {integerLit(typeArgLoc), Literal(typeArgLoc, "String", "s"),
     call(Self(typeArgLoc), "foo", <<cnst("String")>>),
     call(cnst("T"), "nilable", <<integerLit(typeArgLoc)>>)}

\* -> { body }
thunk(loc, body) == Send(loc, Self(loc), "lambda", <<>>, Block(loc, <<>>, body))

\* one `key: value` of an options map
pair(key, value) == [key |-> key, value |-> value]

keyLit(name) == symbolLit(rulesLoc, name)

valueLoc == Loc(40, 50)

OptionPairs ==
    {pair(keyLit("immutable"), Literal(valueLoc, "True", "true")),
     pair(keyLit("immutable"), Literal(valueLoc, "False", "false")),
     pair(keyLit("factory"), thunk(valueLoc, integerLit(valueLoc))),
     pair(keyLit("factory"), Literal(valueLoc, "Nil", "nil")),
     pair(keyLit("default"), integerLit(valueLoc)),
     pair(keyLit("computed_by"), symbolLit(valueLoc, "compute")),
     pair(keyLit("computed_by"), integerLit(valueLoc)),
     pair(keyLit("computed_by"), Literal(valueLoc, "Nil", "nil")),
     pair(keyLit("computed_by"), call(Self(valueLoc), "compute", <<>>)),
     pair(keyLit("foreign"), thunk(valueLoc, cnst("Foo"))),
     pair(keyLit("foreign"), thunk(valueLoc, integerLit(valueLoc))),
     pair(keyLit("foreign"), cnst("Foo")),
     pair(keyLit("foreign"), Literal(valueLoc, "Nil", "nil")),
     pair(keyLit("ifunset"), integerLit(valueLoc)),
     pair(keyLit("ifunset"), Literal(valueLoc, "Nil", "nil"))}

\* the map literal { entries }
hashLit(entries) ==
    Hash(rulesLoc, [i \in 1..Len(entries) |-> entries[i].key],
         [i \in 1..Len(entries) |-> entries[i].value])

OptionMaps == {hashLit(entries) : entries \in SeqUpTo(OptionPairs, MaxOpts)}

\* fun(args), a call on self in a class body
stat(fun, args) == Send(callLoc, Self(callLoc), fun, args, Null)

PropFuns ==
    {"prop", "const", "token_prop", "timestamped_token_prop", "created_prop", "merchant_prop"}

AllFuns == PropFuns \cup {"attr_reader"}

\* calls of every arity up to the one parseProp turns away: symbols, types and
\* integers in any order, then an options map or none
ShapeSends ==
    {stat(fun, args \o tail) :
        fun \in AllFuns,
        args \in SeqUpTo({symbolLit(nameArgLoc, "foo"), cnst("String"), integerLit(typeArgLoc)},
                         TooManyArgs),
        tail \in {<<>>, <<hashLit(<<>>)>>,
                  <<hashLit(<<pair(keyLit("computed_by"), integerLit(valueLoc))>>)>>}}

\* name, then every kind of second argument
TypeSends ==
    {stat(fun, <<symbolLit(nameArgLoc, "foo"), type>> \o tail) :
        fun \in {"prop", "const"},
        type \in TypeExprs \cup NonTypes,
        tail \in {<<>>, <<hashLit(<<pair(keyLit("immutable"), Literal(valueLoc, "True", "true"))>>)>>,
                  <<hashLit(<<pair(keyLit("ifunset"), integerLit(valueLoc))>>)>>}}

\* every options map on a plain and on a Hash prop; every map of at most one
\* entry on a nilable prop, a const and two aliases
OptionSends ==
    {stat("prop", <<symbolLit(nameArgLoc, "foo"), type, rules>>) :
        type \in {cnst("String"),
                  generic(scoped(cnst("T"), "Hash"), <<cnst("Symbol"), cnst("String")>>)},
        rules \in OptionMaps}
    \cup {stat(fun, <<symbolLit(nameArgLoc, "foo"), type, hashLit(entries)>>) :
            fun \in {"prop", "const"},
            type \in {cnst("String"), call(cnst("T"), "nilable", <<cnst("String")>>)},
            entries \in SeqUpTo(OptionPairs, 1)}
    \cup {stat(fun, <<hashLit(entries)>>) :
            fun \in {"token_prop", "merchant_prop"}, entries \in SeqUpTo(OptionPairs, 1)}

PropSends == ShapeSends \cup TypeSends \cup OptionSends

\* def initialize; end, written by the user
userInitialize == MethodDef(callLoc, "initialize", <<>>, EmptyTree)

\* the statements of the bodies of Spec
BodyStats ==
    {stat("prop", <<symbolLit(nameArgLoc, "a"), cnst("String")>>),
     stat("prop", <<symbolLit(nameArgLoc, "b"), cnst("String"),
                    hashLit(<<pair(keyLit("default"), integerLit(valueLoc))>>)>>),
     stat("const", <<symbolLit(nameArgLoc, "c"),
                     generic(scoped(cnst("T"), "Hash"), <<cnst("Symbol"), cnst("String")>>),
                     hashLit(<<pair(keyLit("computed_by"), integerLit(valueLoc))>>)>>),
     stat("prop", <<symbolLit(nameArgLoc, "d"), call(cnst("T"), "nilable", <<cnst("String")>>)>>),
     stat("attr_reader", <<symbolLit(nameArgLoc, "a")>>),
     userInitialize}

\* class Name < ancestors
AncestorLists ==
    {<<cnst("Foo"), scoped(rootT, "Struct")>>,
     <<cnst("Struct"), scoped(fooT, "Struct")>>}

klassLoc == Loc(1, 99)

klassName == UnresolvedConstantLit(klassLoc, EmptyTree, "A")

InitWith(autogens, ancestorLists, bodies) ==
    /\ runningUnderAutogen \in autogens
    /\ klass \in {ClassDef(klassLoc, klassName, ancestors, rhs) :
                    ancestors \in ancestorLists, rhs \in bodies}
    /\ errors = <<>>
    /\ oldRHS = <<>>
    /\ replaceNodes = <<>>
    /\ props = <<>>
    /\ runs = 0

\* whole class bodies, in and out of autogen mode
Init == InitWith(BOOLEAN, AncestorLists, SeqUpTo(BodyStats, MaxStats))

Spec == Init /\ [][Next]_vars

\* one call of every shape, alone in the body or between two other statements
InitProp ==
    InitWith({FALSE}, {<<>>, <<scoped(cnst("T"), "Struct")>>},
             {<<s>> : s \in PropSends}
             \cup {<<userInitialize, s, stat("prop", <<symbolLit(nameArgLoc, "a"), cnst("String")>>)>> :
                     s \in ShapeSends})

SpecProp == InitProp /\ [][Next]_vars

----------------------------------------------------------------------------
\* The vocabulary of the properties below.

\* Prop::run has rewritten the class at least once
rewritten == runs >= 1 /\ ~runningUnderAutogen

structDerived == isForTStruct(klass.ancestors)

\* the classifier takes this statement for a property declaration
recognized(s) == s.kind = "Send" /\ parseProp(s).has_value

\* what statement j of the old body becomes
piece(j) == IF recognized(oldRHS[j]) THEN replaceNodes[j] ELSE <<oldRHS[j]>>

\* how many statements the first n statements of the old body become
RECURSIVE piecesLen(_)
piecesLen(n) == IF n = 0 THEN 0 ELSE piecesLen(n - 1) + Len(piece(n))

\* how many statements Prop::run puts before the rebuilt body
prefixLen == IF structDerived THEN 2 ELSE 0

\* the j-th old statement that was recognized: record k comes from statement source(k)
source(k) ==
    CHOOSE j \in DOMAIN replaceNodes : Cardinality({m \in DOMAIN replaceNodes : m <= j}) = k

isSigSend(s) == s.kind = "Send" /\ s.fun = "sig"

isInitialize(s) == s.kind = "MethodDef" /\ s.name = "initialize"

\* the params hash of a sig {params(hash).returns(ret)} or sig {params(hash).void}
sigParams(sig) == sig.block.body.recv.args[1]

----------------------------------------------------------------------------
\* C1: outside autogen mode Prop::run leaves: the initializer's sig and constructor
\* iff the class is struct-derived (whether or not a prop was recognized), then,
\* in the old order, each old statement itself when it was not recognized and its
\* stored replacement when it was.
C1_RunRebuildsInOrder ==
    rewritten =>
        /\ DOMAIN replaceNodes = {j \in 1..Len(oldRHS) : recognized(oldRHS[j])}
        /\ \A j \in DOMAIN replaceNodes :
              replaceNodes[j] = processProp(parseProp(oldRHS[j]).value, structDerived)
        /\ Len(klass.rhs) = prefixLen + piecesLen(Len(oldRHS))
        /\ \A j \in 1..Len(oldRHS) : \A k \in 1..Len(piece(j)) :
              klass.rhs[prefixLen + piecesLen(j - 1) + k] = piece(j)[k]
        /\ structDerived => isSigSend(klass.rhs[1]) /\ isInitialize(klass.rhs[2])
        /\ ~structDerived /\ oldRHS # <<>> =>
              klass.rhs[1] = piece(1)[1]

\* a struct-derived class whose body had a recognized call between two statements
\* that were not, the last of them the user's own constructor
C1_Witness ==
    /\ runs = 1 /\ ~runningUnderAutogen /\ structDerived
    /\ Len(oldRHS) = 3
    /\ ~recognized(oldRHS[1]) /\ recognized(oldRHS[2]) /\ oldRHS[3] = userInitialize
    /\ klass.rhs[Len(klass.rhs)] = userInitialize

\* the params of the initializer's sig and of the constructor, and the constructor's body
initializeSig == sigParams(klass.rhs[1])

initializeArgs == klass.rhs[2].args

initializeBody == klass.rhs[2].rhs

nRequired == Cardinality({m \in 1..Len(props) : props[m].default_ = Null})

\* where record k stands among the parameters: the required in declaration order,
\* then the defaulted in declaration order
paramPos(k) ==
    IF props[k].default_ = Null
    THEN Cardinality({m \in 1..k : props[m].default_ = Null})
    ELSE nRequired + Cardinality({m \in 1..k : props[m].default_ # Null})

argName(arg) == IF arg.kind = "OptionalArg" THEN arg.expr.expr.name ELSE arg.expr.name

\* C2: mkTStructInitialize gives one sig and one constructor; the sig's map and the
\* constructor's parameters hold every record once, the records with no default
\* first and those with a default after, each group in declaration order; the body
\* assigns the fields in declaration order and ends with a zero-argument super.
C2_InitializeOrder ==
    rewritten /\ structDerived =>
        /\ isSigSend(klass.rhs[1]) /\ isInitialize(klass.rhs[2])
        /\ Len(initializeSig.keys) = Len(props)
        /\ Len(initializeSig.values) = Len(props)
        /\ Len(initializeArgs) = Len(props)
        /\ \A k \in 1..Len(props) :
              /\ isSymbol(initializeSig.keys[paramPos(k)])
              /\ initializeSig.keys[paramPos(k)].value = props[k].name
              /\ initializeSig.values[paramPos(k)] = props[k].type
              /\ argName(initializeArgs[paramPos(k)]) = props[k].name
              /\ IF props[k].default_ = Null
                 THEN initializeArgs[paramPos(k)].kind = "KeywordArg"
                 ELSE /\ initializeArgs[paramPos(k)].kind = "OptionalArg"
                      /\ initializeArgs[paramPos(k)].default_ = props[k].default_
        /\ initializeBody.kind = "InsSeq"
        /\ Len(initializeBody.stats) = Len(props)
        /\ \A k \in 1..Len(props) :
              /\ initializeBody.stats[k].kind = "Assign"
              /\ initializeBody.stats[k].lhs.kind = "UnresolvedIdent"
              /\ initializeBody.stats[k].lhs.vkind = "Instance"
              /\ initializeBody.stats[k].lhs.name = "@" \o props[k].name
              /\ initializeBody.stats[k].rhs.kind = "Local"
              /\ initializeBody.stats[k].rhs.name = props[k].name
        /\ initializeBody.expr.kind = "Send"
        /\ initializeBody.expr.fun = "super"
        /\ initializeBody.expr.args = <<ZSuperArgs(klass.loc)>>
        /\ Cardinality({j \in 1..Len(klass.rhs) : isInitialize(klass.rhs[j])})
              = 1 + Cardinality({j \in 1..Len(oldRHS) : isInitialize(oldRHS[j])})

\* a (required), b (default: 1), c (required): parameters a, c, b
C2_Witness ==
    /\ runs = 1 /\ ~runningUnderAutogen /\ structDerived
    /\ Len(props) = 3
    /\ props[1].name = "a" /\ props[1].default_ = Null
    /\ props[2].name = "b" /\ props[2].default_ # Null
    /\ props[3].name = "c" /\ props[3].default_ = Null
    /\ [i \in 1..3 |-> argName(initializeArgs[i])] = <<"a", "c", "b">>

----------------------------------------------------------------------------
\* Reading a call as the programmer wrote it.

\* the options map of a call: its last argument when that is a map literal
optionsOf(s) ==
    IF s.args # <<>> /\ s.args[Len(s.args)].kind = "Hash"
    THEN s.args[Len(s.args)]
    ELSE Hash(NoLoc, <<>>, <<>>)

\* the entries of the options of s under the symbol key
entriesOf(s, key) ==
    {i \in 1..Len(optionsOf(s).keys) :
        isSymbol(optionsOf(s).keys[i]) /\ optionsOf(s).keys[i].value = key}

\* the value the options of s give key (the first, if it is written twice), else Null
optionValue(s, key) ==
    IF entriesOf(s, key) = {} THEN Null
    ELSE optionsOf(s).values[CHOOSE i \in entriesOf(s, key) : \A m \in entriesOf(s, key) : i <= m]

\* Ruby's truth: anything but nil and false
truthy(v) == v # Null /\ ~(v.kind = "Literal" /\ v.lit \in {"Nil", "False"})

\* the macros that bring their own name and type
isAlias(s) ==
    s.fun \in {"token_prop", "timestamped_token_prop", "created_prop", "merchant_prop"}

isTokenAlias(s) == s.fun \in {"token_prop", "timestamped_token_prop"}

\* const, merchant_prop, or immutable: <truthy>
immutableDecl(s) == s.fun \in {"const", "merchant_prop"} \/ truthy(optionValue(s, "immutable"))

\* the record and the replacement of old statement j, when it was recognized
rank(j) == Cardinality({m \in DOMAIN replaceNodes : m <= j})

recordOf(j) == props[rank(j)]

\* a method name=(arg0)
isSetter(n, name) ==
    /\ n.kind = "MethodDef"
    /\ n.name = name \o "="
    /\ Len(n.args) = 1
    /\ n.args[1].kind = "Local"

\* nodes holds a sig followed by the setter of name
hasSetterPair(nodes, name) ==
    \E i \in 1..(Len(nodes) - 1) : isSigSend(nodes[i]) /\ isSetter(nodes[i + 1], name)

isMutatorClass(n) ==
    n.kind = "ClassDef" /\ n.name.kind = "UnresolvedConstantLit" /\ n.name.cnst = "Mutator"

hasMutatorSetter(nodes, name) ==
    \E i \in 1..Len(nodes) : isMutatorClass(nodes[i]) /\ hasSetterPair(nodes[i].rhs, name)

----------------------------------------------------------------------------
\* C3: an immutable declaration (const, merchant_prop, or immutable: <truthy>) of
\* any type gets no class-level sig+setter, and always gets a nested Mutator class
\* holding a sig+setter.
C3_ImmutableSetterOnlyInMutator ==
    rewritten =>
        \A j \in DOMAIN replaceNodes :
            immutableDecl(oldRHS[j]) =>
                /\ ~hasSetterPair(replaceNodes[j], recordOf(j).name)
                /\ hasMutatorSetter(replaceNodes[j], recordOf(j).name)

\* C4: token_prop and timestamped_token_prop both give a record named token of
\* type String, and a call of either that supplies a name argument is rejected
\* and left as it is.
C4_TokenAliasesRejectName ==
    rewritten =>
        \A j \in 1..Len(oldRHS) :
            oldRHS[j].kind = "Send" /\ isTokenAlias(oldRHS[j]) =>
                /\ j \in DOMAIN replaceNodes =>
                      /\ recordOf(j).name = "token"
                      /\ recordOf(j).type.kind = "ConstantLit"
                      /\ recordOf(j).type.symbol = "String"
                /\ oldRHS[j].args # <<>> /\ isSymbol(oldRHS[j].args[1]) =>
                      /\ j \notin DOMAIN replaceNodes
                      /\ klass.rhs[prefixLen + piecesLen(j - 1) + 1] = oldRHS[j]

\* the shapes the classifier turns away
rejectedShape(s) ==
    \/ s.fun \notin PropFuns
    \/ Len(s.args) >= 4
    \/ ~isAlias(s) /\ (s.args = <<>> \/ ~isSymbol(s.args[1]))
    \/ ~isAlias(s) /\ (Len(s.args) = 1 \/ (Len(s.args) >= 2 /\ dupType(s.args[2]) = Null))
    \/ Len(s.args) = 3 /\ s.args[3].kind # "Hash"

\* the calls of the old body that are no rejected shape
acceptedCalls == {j \in 1..Len(oldRHS) : oldRHS[j].kind = "Send" /\ ~rejectedShape(oldRHS[j])}

\* a call that could open a diagnostic: accepted, with a computed_by or foreign option
mayDiagnose(s) ==
    /\ ~rejectedShape(s)
    /\ entriesOf(s, "computed_by") \cup entriesOf(s, "foreign") # {}

\* C5: a call of a rejected shape (unknown name; 4 or more arguments; no symbol
\* where the name is due; one argument or no type where the type is due; 3
\* arguments, the last no map) stays unmodified at its place, gives the
\* initializer no record, and opens no diagnostic, whatever its arguments hold.
C5_SilentRejection ==
    runs = 1 /\ ~runningUnderAutogen =>
        /\ DOMAIN replaceNodes = acceptedCalls
        /\ \A j \in 1..Len(oldRHS) :
              oldRHS[j].kind = "Send" /\ rejectedShape(oldRHS[j]) =>
                  klass.rhs[prefixLen + piecesLen(j - 1) + 1] = oldRHS[j]
        /\ Len(klass.rhs) = prefixLen + piecesLen(Len(oldRHS))
        /\ Len(props) = Cardinality(acceptedCalls)
        /\ structDerived => Len(initializeArgs) = Cardinality(acceptedCalls)
        /\ (\A j \in 1..Len(oldRHS) : oldRHS[j].kind = "Send" => ~mayDiagnose(oldRHS[j]))
              => errors = <<>>

\* a call of 4 arguments whose options hold a computed_by that is no symbol,
\* between two other statements of a struct-derived class
C5_Witness ==
    /\ runs = 1 /\ ~runningUnderAutogen /\ structDerived
    /\ Len(oldRHS) = 3
    /\ oldRHS[2].fun = "prop"
    /\ Len(oldRHS[2].args) = 4
    /\ isSymbol(oldRHS[2].args[1])
    /\ optionValue(oldRHS[2], "computed_by") # Null
    /\ klass.rhs[4] = oldRHS[2]
    /\ Len(props) = 1
    /\ errors = <<>>

\* a call to nilable on T or ::T
nilableWrapper(e) ==
    /\ e.kind = "Send"
    /\ e.fun = "nilable"
    /\ e.recv.kind = "UnresolvedConstantLit"
    /\ e.recv.cnst = "T"
    /\ \/ e.recv.scope.kind = "EmptyTree"
       \/ e.recv.scope.kind = "ConstantLit" /\ e.recv.scope.symbol = "root"

\* the options of s set no default: no truthy factory and no default key
setsNoDefault(s) ==
    /\ \A i \in entriesOf(s, "factory") : ~truthy(optionsOf(s).values[i])
    /\ entriesOf(s, "default") = {}

isNilLiteral(e) == e.kind = "Literal" /\ e.lit = "Nil"

\* C6: a recognized prop whose options set no default and whose type is a nilable
\* wrapper gets the default nil, and in a struct-derived class it stands among the
\* defaulted parameters of the initializer, after every required one.
C6_NilableIsOptional ==
    rewritten =>
        \A j \in DOMAIN replaceNodes :
            /\ ~isAlias(oldRHS[j])
            /\ nilableWrapper(oldRHS[j].args[2])
            /\ setsNoDefault(oldRHS[j])
            => /\ isNilLiteral(recordOf(j).default_)
               /\ structDerived =>
                     /\ paramPos(rank(j)) > nRequired
                     /\ initializeArgs[paramPos(rank(j))].kind = "OptionalArg"
                     /\ argName(initializeArgs[paramPos(rank(j))]) = recordOf(j).name
                     /\ isNilLiteral(initializeArgs[paramPos(rank(j))].default_)
                     /\ \A p \in 1..Len(initializeArgs) :
                           initializeArgs[p].kind = "KeywordArg" => p < paramPos(rank(j))

\* prop :d, T.nilable(String) declared before the required prop :a
C6_Witness ==
    /\ runs = 1 /\ ~runningUnderAutogen /\ structDerived
    /\ Len(props) = 2
    /\ nilableWrapper(oldRHS[source(1)].args[2])
    /\ setsNoDefault(oldRHS[source(1)])
    /\ props[2].default_ = Null
    /\ [i \in 1..2 |-> argName(initializeArgs[i])] = <<props[2].name, props[1].name>>

\* C7: in autogen mode Prop::run leaves the class as it is: the same statements
\* in the same order, no initializer, no replacement, no diagnostic.
C7_AutogenLeavesBody ==
    [][runningUnderAutogen => klass' = klass /\ errors' = errors]_vars

\* Prop::run has been called in autogen mode on a struct-derived class of three
\* statements, one of them a property declaration
C7_Witness ==
    /\ runs >= 1 /\ runningUnderAutogen /\ structDerived
    /\ Len(klass.rhs) = 3
    /\ \E j \in 1..3 : recognized(klass.rhs[j])

\* what processProp and mkTStructInitialize make: sig calls, methods, class Mutator
isSynthesized(n) == isSigSend(n) \/ n.kind = "MethodDef" \/ isMutatorClass(n)

\* C8: in the body one Prop::run leaves, nothing it synthesized (sig calls,
\* accessors, class Mutator and what is in it, the initializer) is classified as a
\* property declaration, the old statements it kept are rejected again, and a
\* second run replaces nothing.
C8_NoReentrantRewriting ==
    rewritten =>
        /\ \A j \in DOMAIN replaceNodes : \A k \in 1..Len(replaceNodes[j]) :
              isSynthesized(replaceNodes[j][k])
        /\ \A j \in 1..Len(klass.rhs) :
              /\ ~recognized(klass.rhs[j])
              /\ klass.rhs[j].kind = "ClassDef" =>
                    \A m \in 1..Len(klass.rhs[j].rhs) : ~recognized(klass.rhs[j].rhs[m])
        /\ runs >= 2 =>
              /\ DOMAIN replaceNodes = {}
              /\ props = <<>>
              /\ SubSeq(klass.rhs, prefixLen + 1, Len(klass.rhs)) = oldRHS

\* the second run on a struct-derived class whose first run made an initializer,
\* accessors and a class Mutator
C8_Witness ==
    /\ runs = 2 /\ ~runningUnderAutogen /\ structDerived
    /\ isSigSend(klass.rhs[1]) /\ isInitialize(klass.rhs[2])
    /\ isSigSend(klass.rhs[3]) /\ isInitialize(klass.rhs[4])
    /\ Len(klass.rhs[4].args) = 1
    /\ \E j \in 5..Len(klass.rhs) : isMutatorClass(klass.rhs[j])
    /\ \E j \in 5..Len(klass.rhs) : isSetter(klass.rhs[j], "foo")

\* the sig and the getter of name that a class Mutator among nodes holds, if any
mutatorGetterSigs(nodes, name) ==
    {nodes[i].rhs[m] : i \in {i \in 1..Len(nodes) : isMutatorClass(nodes[i])},
                       m \in {m \in 1..3 :
                                \E i \in 1..Len(nodes) :
                                    /\ isMutatorClass(nodes[i])
                                    /\ m < Len(nodes[i].rhs)
                                    /\ isSigSend(nodes[i].rhs[m])
                                    /\ nodes[i].rhs[m + 1].kind = "MethodDef"
                                    /\ nodes[i].rhs[m + 1].name = name
                                    /\ nodes[i].rhs[m + 1].args = <<>>}}

\* the return type of sig {returns(ret)}
sigReturns(sig) == sig.block.body.args[1]

\* Chalk::ODM::Mutator::Private::<proxy>[args]
isProxy(type, proxy, args) ==
    /\ type.kind = "Send"
    /\ type.fun = "[]"
    /\ type.recv.kind = "UnresolvedConstantLit"
    /\ type.recv.cnst = proxy
    /\ type.recv.scope.cnst = "Private"
    /\ type.args = args

isUntyped(e) == e.kind = "Send" /\ e.fun = "untyped" /\ e.args = <<>>

\* the declared type of a call of prop or const, as written
declaredType(s) == s.args[2]

\* C9: the mutator getter follows the shape of the declared type alone: Hash with
\* two arguments gives HashMutator[a1, a2], Array with one gives ArrayMutator[a1],
\* Hash or Array with another count gives the proxy with T.untyped (twice for
\* Hash, once for Array), and any other type gives no mutator getter.
C9_MutatorGetterByShape ==
    rewritten =>
        \A j \in DOMAIN replaceNodes :
            LET getters == mutatorGetterSigs(replaceNodes[j], recordOf(j).name)
                type == declaredType(oldRHS[j])
            IN  IF isAlias(oldRHS[j]) THEN getters = {}
                ELSE IF type \in HashTypes /\ type.kind = "Send" /\ Len(type.args) = 2
                THEN /\ Cardinality(getters) = 1
                     /\ \A g \in getters : isProxy(sigReturns(g), "HashMutator", type.args)
                ELSE IF type \in ArrayTypes /\ type.kind = "Send" /\ Len(type.args) = 1
                THEN /\ Cardinality(getters) = 1
                     /\ \A g \in getters : isProxy(sigReturns(g), "ArrayMutator", type.args)
                ELSE IF type \in HashTypes
                THEN /\ Cardinality(getters) = 1
                     /\ \A g \in getters :
                           /\ sigReturns(g).recv.cnst = "HashMutator"
                           /\ Len(sigReturns(g).args) = 2
                           /\ isUntyped(sigReturns(g).args[1])
                           /\ isUntyped(sigReturns(g).args[2])
                ELSE IF type \in ArrayTypes
                THEN /\ Cardinality(getters) = 1
                     /\ \A g \in getters :
                           /\ sigReturns(g).recv.cnst = "ArrayMutator"
                           /\ Len(sigReturns(g).args) = 1
                           /\ isUntyped(sigReturns(g).args[1])
                ELSE getters = {}

\* const :foo, T::Hash[Symbol, String] with options: HashMutator[Symbol, String]
C9_Witness ==
    /\ runs = 1 /\ ~runningUnderAutogen
    /\ Len(oldRHS) = 1 /\ DOMAIN replaceNodes = {1}
    /\ oldRHS[1].fun = "const"
    /\ Len(oldRHS[1].args) = 3
    /\ declaredType(oldRHS[1]) =
          generic(scoped(cnst("T"), "Hash"), <<cnst("Symbol"), cnst("String")>>)
    /\ \E g \in mutatorGetterSigs(replaceNodes[1], "foo") :
          sigReturns(g).args = <<cnst("Symbol"), cnst("String")>>

\* the diagnostics about the computed_by value v
computedByErrors(v) ==
    {i \in 1..Len(errors) : errors[i].what = "ComputedBySymbol" /\ errors[i].loc = v.loc}

\* the getter of the replacement of statement j tries no computed method
plainGetter(j) ==
    /\ replaceNodes[j][2].kind = "MethodDef"
    /\ replaceNodes[j][2].name = recordOf(j).name
    /\ replaceNodes[j][2].rhs.kind # "InsSeq"

\* the record of statement j holds no computed_by method, and the call is rewritten
computedByUnset(j) ==
    /\ recordOf(j).computedByMethodName = noName
    /\ recordOf(j).computedByMethodNameLoc = NoLoc
    /\ plainGetter(j)

computedByRecorded(j, v) ==
    /\ recordOf(j).computedByMethodName = v.value
    /\ recordOf(j).computedByMethodNameLoc = v.loc
    /\ ~plainGetter(j)

\* C10 as claimed: a computed_by value that is no symbol literal gets a diagnostic
\* at its location, the method name stays unset and the call is still rewritten;
\* a symbol literal gets no diagnostic and is recorded with its location.
C10_AnyNonSymbolDiagnosed ==
    runs = 1 /\ ~runningUnderAutogen =>
        \A j \in DOMAIN replaceNodes :
            LET v == optionValue(oldRHS[j], "computed_by")
            IN  /\ v # Null /\ ~isSymbol(v) =>
                      Cardinality(computedByErrors(v)) = 1 /\ computedByUnset(j)
                /\ v # Null /\ isSymbol(v) =>
                      computedByErrors(v) = {} /\ computedByRecorded(j, v)

\* C10, amended: a computed_by value that is truthy (neither nil nor false) and no
\* symbol literal gets one diagnostic at its location, the method name stays unset
\* and the call is still rewritten with the plain getter; a nil or false value is
\* taken as no computed_by at all: no diagnostic, name unset, call rewritten; a
\* symbol literal gets no diagnostic and is recorded with its location. No other
\* call gets this diagnostic.
C10_TruthyNonSymbolDiagnosed ==
    runs = 1 /\ ~runningUnderAutogen =>
        /\ \A i \in 1..Len(errors) :
              errors[i].what = "ComputedBySymbol" =>
                  \E j \in DOMAIN replaceNodes :
                      /\ truthy(optionValue(oldRHS[j], "computed_by"))
                      /\ ~isSymbol(optionValue(oldRHS[j], "computed_by"))
                      /\ errors[i].loc = optionValue(oldRHS[j], "computed_by").loc
        /\ \A j \in DOMAIN replaceNodes :
            LET v == optionValue(oldRHS[j], "computed_by")
            IN  /\ truthy(v) /\ ~isSymbol(v) =>
                      Cardinality(computedByErrors(v)) = 1 /\ computedByUnset(j)
                /\ v # Null /\ ~truthy(v) =>
                      computedByErrors(v) = {} /\ computedByUnset(j)
                /\ v # Null /\ isSymbol(v) =>
                      computedByErrors(v) = {} /\ computedByRecorded(j, v)
                /\ v = Null => computedByUnset(j)

\* prop :foo, String, computed_by: 1 in a struct-derived class: diagnosed, rewritten
C10_Witness ==
    /\ runs = 1 /\ ~runningUnderAutogen /\ structDerived
    /\ Len(oldRHS) = 1 /\ DOMAIN replaceNodes = {1}
    /\ optionValue(oldRHS[1], "computed_by") = integerLit(valueLoc)
    /\ Len(errors) = 1
    /\ errors[1].what = "ComputedBySymbol"
    /\ errors[1].loc = valueLoc
    /\ props[1].computedByMethodName = noName
    /\ replaceNodes[1][2].rhs.kind = "UnresolvedIdent"

----------------------------------------------------------------------------
\* the diagnostics about the foreign value v: each suggests wrapping v in a lambda
foreignErrors(v) ==
    {i \in 1..Len(errors) : errors[i].what = "PropForeignStrict" /\ errors[i].loc = v.loc}

suggestsLambda(e, v) ==
    /\ e.autocorrect # Null
    /\ e.autocorrect.loc = v.loc
    /\ e.autocorrect.source = v.loc
    /\ e.autocorrect.format = "-> {{{}}}"

\* def name(**opts)
isForeignAccessor(n, name) ==
    /\ n.kind = "MethodDef"
    /\ n.name = name
    /\ Len(n.args) = 1
    /\ n.args[1].kind = "RestArg"
    /\ n.args[1].expr.kind = "KeywordArg"
    /\ n.args[1].expr.expr.name = "opts"

\* sig {params(opts: T.untyped).returns(ret)}
isOptsSig(sig) ==
    /\ isSigSend(sig)
    /\ Len(sigParams(sig).keys) = 1
    /\ sigParams(sig).keys[1].value = "opts"
    /\ isUntyped(sigParams(sig).values[1])

isNilableOf(type, inner) ==
    /\ type.kind = "Send"
    /\ type.fun = "nilable"
    /\ type.recv = MK_T(type.loc)
    /\ type.args = <<inner>>

\* the methods name_ and name_! among nodes
foreignMethods(nodes, name) ==
    {i \in 1..Len(nodes) :
        nodes[i].kind = "MethodDef" /\ nodes[i].name \in {name \o "_", name \o "_!"}}

\* nodes holds, from index at, the two sig+accessor pairs of the foreign expression
\* f, and no other method of these names
hasForeignAccessors(nodes, at, name, f) ==
    /\ Len(nodes) >= at + 3
    /\ foreignMethods(nodes, name) = {at + 1, at + 3}
    /\ isOptsSig(nodes[at])
    /\ isForeignAccessor(nodes[at + 1], name \o "_")
    /\ isOptsSig(nodes[at + 2])
    /\ isForeignAccessor(nodes[at + 3], name \o "_!")
    /\ IF dupType(f) # Null
       THEN /\ isNilableOf(sigReturns(nodes[at]), f)
            /\ sigReturns(nodes[at + 2]) = f
       ELSE /\ isUntyped(sigReturns(nodes[at]))
            /\ isUntyped(sigReturns(nodes[at + 2]))

\* C11: a recognized call with a foreign option: a thunk value puts its body in
\* the record with no diagnostic, any other value is kept as it is with exactly
\* one diagnostic that suggests wrapping it in a lambda; either way the
\* replacement holds exactly two sig+method pairs name_ and name_! taking **opts,
\* returning T.nilable(foreign) and foreign when the foreign expression is a type
\* expression and T.untyped both otherwise. Without the option: no such accessor.
C11_ForeignAccessors ==
    runs = 1 /\ ~runningUnderAutogen =>
        /\ \A i \in 1..Len(errors) :
              errors[i].what = "PropForeignStrict" =>
                  \E j \in DOMAIN replaceNodes :
                      /\ optionValue(oldRHS[j], "foreign") # Null
                      /\ thunkBody(optionValue(oldRHS[j], "foreign")) = Null
                      /\ errors[i].loc = optionValue(oldRHS[j], "foreign").loc
        /\ \A j \in DOMAIN replaceNodes :
            LET v == optionValue(oldRHS[j], "foreign")
                rec == recordOf(j)
                at == IF rec.isImmutable THEN 3 ELSE 5
            IN  IF v = Null
                THEN /\ rec.foreign = Null
                     /\ foreignMethods(replaceNodes[j], rec.name) = {}
                ELSE /\ IF thunkBody(v) # Null
                        THEN /\ rec.foreign = v.block.body
                             /\ foreignErrors(v) = {}
                        ELSE /\ rec.foreign = v
                             /\ Cardinality(foreignErrors(v)) = 1
                             /\ \A i \in foreignErrors(v) : suggestsLambda(errors[i], v)
                     /\ hasForeignAccessors(replaceNodes[j], at, rec.name, rec.foreign)

\* prop :foo, String, foreign: Foo: one diagnostic, and the accessors foo_ and foo_!
\* return T.nilable(Foo) and Foo
C11_Witness ==
    /\ runs = 1 /\ ~runningUnderAutogen
    /\ Len(oldRHS) = 1 /\ DOMAIN replaceNodes = {1}
    /\ oldRHS[1].fun = "prop"
    /\ optionValue(oldRHS[1], "foreign") = cnst("Foo")
    /\ props[1].foreign = cnst("Foo")
    /\ Len(errors) = 1 /\ errors[1].what = "PropForeignStrict"
    /\ Len(replaceNodes[1]) = 8
    /\ replaceNodes[1][6].name = "foo_"
    /\ replaceNodes[1][8].name = "foo_!"
    /\ sigReturns(replaceNodes[1][7]) = cnst("Foo")

----------------------------------------------------------------------------
\* Kernel.raise("Sorbet rewriter pass partially unimplemented")
isUnimplemented(body) ==
    /\ body.kind = "Send"
    /\ body.fun = "raise"
    /\ body.recv.kind = "ConstantLit" /\ body.recv.symbol = "Kernel"

\* T.assert_type!(self.class.method(T.unsafe(nil)), type); then unimplemented
isComputedBody(body, method, type) ==
    /\ body.kind = "InsSeq"
    /\ Len(body.stats) = 1
    /\ body.stats[1].kind = "Send"
    /\ body.stats[1].fun = "assert_type!"
    /\ Len(body.stats[1].args) = 2
    /\ body.stats[1].args[1].kind = "Send"
    /\ body.stats[1].args[1].fun = method
    /\ body.stats[1].args[1].recv.kind = "Send"
    /\ body.stats[1].args[1].recv.fun = "class"
    /\ body.stats[1].args[1].recv.recv.kind = "Self"
    /\ Len(body.stats[1].args[1].args) = 1
    /\ body.stats[1].args[1].args[1].fun = "unsafe"
    /\ isNilLiteral(body.stats[1].args[1].args[1].args[1])
    /\ body.stats[1].args[2] = type
    /\ isUnimplemented(body.expr)

\* @name
isFieldRead(body, name) ==
    /\ body.kind = "UnresolvedIdent"
    /\ body.vkind = "Instance"
    /\ body.name = "@" \o name

\* the type a call declares: written as its second argument, or brought by the alias
declaredOrImplied(s) ==
    IF s.fun = "created_prop" THEN MK_Constant(s.loc, "Float")
    ELSE IF isAlias(s) THEN MK_Constant(s.loc, "String")
    ELSE declaredType(s)

\* C12: every replacement begins with sig {params({}).returns(type)} and the
\* getter, whose body is: with a computed_by method, the type assertion on the
\* call of that class method and then unimplemented, whatever the class and the
\* ifunset option; else, without an ifunset value in a struct-derived class, the
\* read of @name; else (ifunset given, or class not struct-derived) unimplemented.
C12_GetterBodyPriority ==
    runs = 1 /\ ~runningUnderAutogen =>
        \A j \in DOMAIN replaceNodes :
            LET nodes == replaceNodes[j]
                s == oldRHS[j]
                name == recordOf(j).name
                computedBy == optionValue(s, "computed_by")
                ifunset == optionValue(s, "ifunset")
            IN  /\ Len(nodes) >= 2
                /\ isSigSend(nodes[1])
                /\ sigParams(nodes[1]).keys = <<>>
                /\ sigReturns(nodes[1]) = declaredOrImplied(s)
                /\ nodes[2].kind = "MethodDef"
                /\ nodes[2].name = name
                /\ nodes[2].args = <<>>
                /\ IF computedBy # Null /\ isSymbol(computedBy)
                   THEN isComputedBody(nodes[2].rhs, computedBy.value, declaredOrImplied(s))
                   ELSE IF ifunset = Null /\ structDerived
                   THEN isFieldRead(nodes[2].rhs, name)
                   ELSE isUnimplemented(nodes[2].rhs)

\* in a struct-derived class, prop :foo, String, computed_by: :compute without
\* ifunset: the getter asserts the type of self.class.compute(T.unsafe(nil))
C12_Witness ==
    /\ runs = 1 /\ ~runningUnderAutogen /\ structDerived
    /\ Len(oldRHS) = 1 /\ DOMAIN replaceNodes = {1}
    /\ optionValue(oldRHS[1], "computed_by") = symbolLit(valueLoc, "compute")
    /\ optionValue(oldRHS[1], "ifunset") = Null
    /\ props[1].computedByMethodName = "compute"
    /\ replaceNodes[1][2].rhs.kind = "InsSeq"
    /\ replaceNodes[1][2].rhs.stats[1].args[1].fun = "compute"

====
